---- MODULE Spec2Model ----
(***************************************************************************)
(* A model of three programs of the 2020plus repository:                   *)
(*   - RandomSplit (src/src/simulation/python/random_split.py): the        *)
(*     stratified resampler, its constructor, setters, loader and the      *)
(*     dataframe_generator generator;                                      *)
(*   - the heatmap preparation of src/data_analysis/python/plot_data.py;   *)
(*   - concatenate_genes and filter_hypermutators of                       *)
(*     src/utils/python/gene_tsv.py.                                       *)
(* The sources are Python 2 over an old pandas/numpy.                      *)
(***************************************************************************)
EXTENDS Integers, Sequences, FiniteSets, TLC

(***************************************************************************)
(* Bounds of the model.                                                    *)
(***************************************************************************)
\* Largest number of rows of the mutation table in the database.
MaxRows == 3
\* Largest num_iter a caller passes (the smallest is -1).
MaxIter == 2
\* sub_sample inputs are the fractions k / SubDen.
SubDen == 4
\* Setter calls made on a constructed object before it is iterated.
MaxSetterCalls == 1

Samples == {"s1", "s2"}
TumorTypes == {"A", "B"}

\* One row of the mutation table; of the six queried columns only the two
\* that RandomSplit itself reads are kept.
Rows == [Tumor_Sample : Samples, Tumor_Type : TumorTypes]

RECURSIVE SeqsUpTo(_, _)
SeqsUpTo(S, n) ==
    IF n = 0 THEN {<<>>}
    ELSE LET shorter == SeqsUpTo(S, n - 1)
         IN  shorter \cup {Append(s, x) : s \in {q \in shorter : Len(q) = n - 1}, x \in S}

Tables == SeqsUpTo(Rows, MaxRows)

\* sub_sample is a float; the model keeps its numerator over SubDen.
SubSampleInputs == (-1) .. (SubDen + 2)
NumIterInputs == (-1) .. MaxIter

Range(s) == {s[k] : k \in DOMAIN s}

VARIABLES
    db,               \* rows of the mutation table behind db_conn
    pc,               \* position of __init__: new, init_num_iter, init_load, ready, failed
    args,             \* arguments of __init__
    has,              \* names of the attributes set on the object
    db_conn,
    sub_sample,       \* self.sub_sample, numerator over SubDen
    num_iter,         \* self.num_iter
    with_replacement, \* self.with_replacement
    df,               \* self.df
    sample_names,     \* self.sample_names: tumor type -> list of sample ids
    num_sample_names, \* self.num_sample_names
    total_count,      \* self.total_count
    raised,           \* exception raised by the last call: none or ValueError
    call,             \* the last setter call: op, arg, and k, its number
    queries,          \* number of queries issued on db_conn
    gen_pc,           \* generator: idle, split, left_done, yielded, done
    rng,              \* range(self.num_iter), evaluated when the generator starts
    i,                \* loop variable of dataframe_generator
    todo,             \* tumor types the inner loop has still to visit
    tmp,              \* tmp_ttype, tmp_left, tmp_right of the last inner step
    left_samples,
    right_samples,
    left_feat_df,
    right_feat_df,
    requested,        \* next() calls of the consumer
    yielded,          \* pairs yielded
    nSplits,          \* per-tumor-type partitions drawn (left and right together)
    nProcess,         \* _process_features calls
    \* plot_data.py
    count_df,         \* the count file read: (initial, mutated) -> count, when present
    plot_pc,          \* start, done
    plot_fn,          \* the function that ran
    heatmap_arg,      \* the table handed to myplt.heatmap
    \* gene_tsv.py, concatenate_genes
    letter_files,     \* the files os.listdir gives for the directories A .. Z
    numeric_files,    \* the files os.listdir gives for the directory 0-9
    gene_pc,          \* letters, numeric, done, error
    file_ix,          \* position in the listing being walked
    out,              \* the lines written to out_path
    FIRST_FLAG,
    LineTuple,        \* whether the local name LineTuple is bound
    \* gene_tsv.py, save_db and filter_hypermutators
    tsv,              \* rows of the combined file
    nucleotide,       \* rows of the table nucleotide
    nuc_before,       \* the table as the last filter_hypermutators call found it
    hypermutator_count, \* argument of the last filter_hypermutators call
    filter_calls      \* number of filter_hypermutators calls

rsVars == <<db, pc, args, has, db_conn, sub_sample, num_iter, with_replacement,
            df, sample_names, num_sample_names, total_count, raised, call,
            queries>>
genVars == <<gen_pc, rng, i, todo, tmp, left_samples, right_samples,
             left_feat_df, right_feat_df, requested, yielded, nSplits, nProcess>>
plotVars == <<count_df, plot_pc, plot_fn, heatmap_arg>>
geneVars == <<letter_files, numeric_files, gene_pc, file_ix, out, FIRST_FLAG,
              LineTuple>>
hyperVars == <<tsv, nucleotide, nuc_before, hypermutator_count, filter_calls>>
vars == <<rsVars, genVars, plotVars, geneVars, hyperVars>>
\* What the resampler does not touch.
notResampler == <<plotVars, geneVars, hyperVars>>

(***************************************************************************)
(* RandomSplit: validation                                                 *)
(***************************************************************************)
\* 0 < sub_sample <= 1, the range the docstring of set_sub_sample gives.
ValidSubSampleOpen(s) == 0 < s /\ s <= SubDen
\* if 0 <= sub_sample <= 1
ValidSubSample(s) == 0 <= s /\ s <= SubDen

\* `if iter > 0`: the name tested is the builtin function iter, not the
\* argument; Python 2 orders a number below any non-number, so the test is
\* true whatever num_iter is.
ValidNumIter(n) == TRUE

NoCall == [op |-> "none", arg |-> 0, k |-> 0]

set_sub_sample(s) ==
    /\ call' = [op |-> "set_sub_sample", arg |-> s, k |-> call.k + 1]
    /\ IF ValidSubSample(s)
       THEN /\ sub_sample' = s
            /\ has' = has \cup {"sub_sample"}
            /\ raised' = "none"
       ELSE /\ raised' = "ValueError"
            /\ UNCHANGED <<sub_sample, has>>

set_num_iter(n) ==
    /\ call' = [op |-> "set_num_iter", arg |-> n, k |-> call.k + 1]
    /\ IF ValidNumIter(n)
       THEN /\ num_iter' = n
            /\ has' = has \cup {"num_iter"}
            /\ raised' = "none"
       ELSE /\ raised' = "ValueError"
            /\ UNCHANGED <<num_iter, has>>

(***************************************************************************)
(* RandomSplit: set_df                                                     *)
(***************************************************************************)
\* DataFrame.drop_duplicates keeps the first row of every group of equal rows.
\* No deduplication at all.
DropDuplicatesNone(s) == s

RECURSIVE DropDuplicates(_)
DropDuplicates(s) ==
    IF s = <<>> THEN <<>>
    ELSE LET front == DropDuplicates(SubSeq(s, 1, Len(s) - 1))
             last == s[Len(s)]
         IN  IF last \in Range(front) THEN front ELSE Append(front, last)

\* set_index('Tumor_Sample').groupby('Tumor_Type').groups: for every tumor
\* type that occurs, the list of the index labels (sample ids) of its rows.
Groups(pairs) ==
    [t \in {p.Tumor_Type : p \in Range(pairs)} |->
        LET sel == SelectSeq(pairs, LAMBDA p : p.Tumor_Type = t)
        IN  [k \in 1 .. Len(sel) |-> sel[k].Tumor_Sample]]

\* np.max(drop_dups['Tumor_Sample'].value_counts()) > 1; the maximum of an
\* empty count is NaN, and NaN > 1 is false.
MultiTypeSample(pairs) ==
    \E s \in Samples :
        Cardinality({k \in DOMAIN pairs : pairs[k].Tumor_Sample = s}) > 1

\* set_df(None): the query, the index, the validity check, the row count.
set_df ==
    /\ queries' = queries + 1
    /\ df' = db
    /\ LET drop_dups == DropDuplicates(db)
       IN  /\ sample_names' = Groups(drop_dups)
           /\ IF ~MultiTypeSample(drop_dups)
              THEN /\ num_sample_names' = Cardinality(DOMAIN Groups(drop_dups))
                   /\ has' = has \cup {"df", "sample_names", "num_sample_names",
                                       "total_count"}
              ELSE /\ UNCHANGED num_sample_names
                   /\ has' = has \cup {"df", "sample_names", "total_count"}
    /\ total_count' = Len(db)
    /\ raised' = "none"

(***************************************************************************)
(* RandomSplit: __init__ and the setters called on a constructed object    *)
(***************************************************************************)
\* The query issued at the start of __init__, before the arguments are checked.
ConstructQueryFirst(s, n, w) ==
    /\ pc = "new"
    /\ args' = [sub_sample |-> s, num_iter |-> n, with_replacement |-> w]
    /\ db_conn' = "conn"
    /\ queries' = queries + 1
    /\ set_sub_sample(s)
    /\ pc' = IF raised' = "none" THEN "init_num_iter" ELSE "failed"
    /\ UNCHANGED <<db, num_iter, with_replacement, df, sample_names,
                   num_sample_names, total_count, genVars>>
    /\ UNCHANGED notResampler

\* self.db_conn = db_conn; self.set_sub_sample(sub_sample)
Construct(s, n, w) ==
    /\ pc = "new"
    /\ args' = [sub_sample |-> s, num_iter |-> n, with_replacement |-> w]
    /\ db_conn' = "conn"
    /\ set_sub_sample(s)
    /\ pc' = IF raised' = "none" THEN "init_num_iter" ELSE "failed"
    /\ UNCHANGED <<db, num_iter, with_replacement, df, sample_names,
                   num_sample_names, total_count, queries, genVars>>
    /\ UNCHANGED notResampler

ConstructNumIter ==
    /\ pc = "init_num_iter"
    /\ set_num_iter(args.num_iter)
    /\ pc' = IF raised' = "none" THEN "init_load" ELSE "failed"
    /\ UNCHANGED <<db, args, db_conn, sub_sample, with_replacement, df,
                   sample_names, num_sample_names, total_count, queries, genVars>>
    /\ UNCHANGED notResampler

ConstructLoad ==
    /\ pc = "init_load"
    /\ with_replacement' = args.with_replacement
    /\ set_df
    /\ pc' = "ready"
    /\ UNCHANGED <<db, args, db_conn, sub_sample, num_iter, call, genVars>>
    /\ UNCHANGED notResampler

\* set_sub_sample and set_num_iter are public: a caller may use them on a
\* constructed object.
CallSetSubSample(s) ==
    /\ pc = "ready"
    /\ call.k < 2 + MaxSetterCalls
    /\ set_sub_sample(s)
    /\ UNCHANGED <<db, pc, args, db_conn, num_iter, with_replacement, df,
                   sample_names, num_sample_names, total_count, queries, genVars>>
    /\ UNCHANGED notResampler

CallSetNumIter(n) ==
    /\ pc = "ready"
    /\ call.k < 2 + MaxSetterCalls
    /\ set_num_iter(n)
    /\ UNCHANGED <<db, pc, args, db_conn, sub_sample, with_replacement, df,
                   sample_names, num_sample_names, total_count, queries, genVars>>
    /\ UNCHANGED notResampler

(***************************************************************************)
(* RandomSplit: dataframe_generator                                        *)
(***************************************************************************)
\* int(x) of the float num/den: truncation toward zero.
IntTrunc(num, den) ==
    IF num >= 0 THEN num \div den ELSE -((-num) \div den)

\* Rounding up instead of truncating.
SplitPosCeil(n, s) == IntTrunc(n * s + SubDen - 1, SubDen)
\* split_pos = int(tmp_num_samps*self.sub_sample)
SplitPos(n, s) == IntTrunc(n * s, SubDen)

\* As many draws as the tumor type has samples.
NumDrawsAll(n, s) == n
\* tmp_num_samps = int(tmp_num_samps*self.sub_sample)
NumDraws(n, s) == IntTrunc(n * s, SubDen)

\* Every position drawn anew from the list, so that an id can repeat.
ShuffleRepeating(s) == [1 .. Len(s) -> Range(s)]

\* prng.shuffle(tmp_samples): any reordering of the list, in place.
Shuffle(s) ==
    {[k \in 1 .. Len(s) |-> s[p[k]]] : p \in Permutations(1 .. Len(s))}

\* prng.choice(tmp_samples, k, replace=True): k independent draws.
Choice(s, k) == [1 .. k -> Range(s)]

\* The rows of self.df gathered draw by draw, without set(samps_of_interest).
ProcessFeaturesPerDraw(samps_of_interest) ==
    LET perDraw[j \in 0 .. Len(samps_of_interest)] ==
            IF j = 0 THEN <<>>
            ELSE perDraw[j - 1] \o
                 SelectSeq(df, LAMBDA r : r.Tumor_Sample = samps_of_interest[j])
    IN  perDraw[Len(samps_of_interest)]

\* self.df rows whose Tumor_Sample is in set(samps_of_interest); the
\* feature and entropy providers are pure functions of these rows, so the
\* feature table is represented by the rows it is computed from.
ProcessFeatures(samps_of_interest) ==
    SelectSeq(df, LAMBDA r : r.Tumor_Sample \in Range(samps_of_interest))

NoTmp == [ttype |-> "none", tmp_left |-> <<>>, tmp_right |-> <<>>]

\* next() of the consumer: the generator starts, or resumes after its yield,
\* and enters the next pass of `for i in range(self.num_iter)`.
Request ==
    /\ pc = "ready" /\ gen_pc \in {"idle", "yielded"}
    /\ requested' = requested + 1
    /\ rng' = IF gen_pc = "idle" THEN num_iter ELSE rng
    /\ i' = IF gen_pc = "idle" THEN 0 ELSE i + 1
    /\ IF i' < rng'
       THEN /\ gen_pc' = "split"
            /\ left_samples' = <<>>
            /\ right_samples' = <<>>
            /\ todo' = DOMAIN sample_names
       ELSE /\ gen_pc' = "done"
            /\ UNCHANGED <<left_samples, right_samples, todo>>
    /\ UNCHANGED <<rsVars, tmp, left_feat_df, right_feat_df, yielded, nSplits,
                   nProcess>>
    /\ UNCHANGED notResampler

\* One pass of `for tmp_ttype, tmp_samples in self.sample_names.iteritems()`.
SplitType(t) ==
    /\ gen_pc = "split" /\ t \in todo
    /\ LET tmp_samples == sample_names[t]
           tmp_num_samps == Len(tmp_samples)
       IN  IF ~with_replacement
           THEN \E shuffled \in Shuffle(tmp_samples) :
                  LET split_pos == SplitPos(tmp_num_samps, sub_sample)
                      tmp_left == SubSeq(shuffled, 1, split_pos)
                      tmp_right == SubSeq(shuffled, split_pos + 1, tmp_num_samps)
                  IN  /\ sample_names' = [sample_names EXCEPT ![t] = shuffled]
                      /\ tmp' = [ttype |-> t, tmp_left |-> tmp_left,
                                 tmp_right |-> tmp_right]
                      /\ left_samples' = left_samples \o tmp_left
                      /\ right_samples' = right_samples \o tmp_right
           ELSE LET k == NumDraws(tmp_num_samps, sub_sample)
                IN  \E tmp_left \in Choice(tmp_samples, k),
                       tmp_right \in Choice(tmp_samples, k) :
                      /\ UNCHANGED sample_names
                      /\ tmp' = [ttype |-> t, tmp_left |-> tmp_left,
                                 tmp_right |-> tmp_right]
                      /\ left_samples' = left_samples \o tmp_left
                      /\ right_samples' = right_samples \o tmp_right
    /\ todo' = todo \ {t}
    /\ nSplits' = nSplits + 1
    /\ UNCHANGED <<db, pc, args, has, db_conn, sub_sample, num_iter,
                   with_replacement, df, num_sample_names, total_count, raised,
                   call, queries, gen_pc, rng, i, left_feat_df, right_feat_df,
                   requested, yielded, nProcess>>
    /\ UNCHANGED notResampler

\* left_feat_df = self._process_features(left_samples)
ProcessLeft ==
    /\ gen_pc = "split" /\ todo = {}
    /\ left_feat_df' = ProcessFeatures(left_samples)
    /\ nProcess' = nProcess + 1
    /\ gen_pc' = "left_done"
    /\ UNCHANGED <<rsVars, rng, i, todo, tmp, left_samples, right_samples,
                   right_feat_df, requested, yielded, nSplits>>
    /\ UNCHANGED notResampler

\* Not a generator: the loop goes on to the next pass without suspending.
ProcessRightEager ==
    /\ gen_pc = "left_done"
    /\ right_feat_df' = ProcessFeatures(right_samples)
    /\ nProcess' = nProcess + 1
    /\ yielded' = yielded + 1
    /\ i' = i + 1
    /\ IF i' < rng
       THEN /\ gen_pc' = "split"
            /\ left_samples' = <<>>
            /\ right_samples' = <<>>
            /\ todo' = DOMAIN sample_names
       ELSE /\ gen_pc' = "done"
            /\ UNCHANGED <<left_samples, right_samples, todo>>
    /\ UNCHANGED <<rsVars, rng, tmp, left_feat_df, requested, nSplits>>
    /\ UNCHANGED notResampler

\* right_feat_df = self._process_features(right_samples), then
\* yield left_feat_df, right_feat_df: the generator suspends.
ProcessRight ==
    /\ gen_pc = "left_done"
    /\ right_feat_df' = ProcessFeatures(right_samples)
    /\ nProcess' = nProcess + 1
    /\ yielded' = yielded + 1
    /\ gen_pc' = "yielded"
    /\ UNCHANGED <<rsVars, rng, i, todo, tmp, left_samples, right_samples,
                   left_feat_df, requested, nSplits>>
    /\ UNCHANGED notResampler

(***************************************************************************)
(* The resampler's specification                                           *)
(***************************************************************************)
InitResampler ==
    /\ db \in Tables
    /\ pc = "new"
    /\ args = [sub_sample |-> 0, num_iter |-> 0, with_replacement |-> FALSE]
    /\ has = {}
    /\ db_conn = "none"
    /\ sub_sample = 0
    /\ num_iter = 0
    /\ with_replacement = FALSE
    /\ df = <<>>
    /\ sample_names = <<>>
    /\ num_sample_names = 0
    /\ total_count = 0
    /\ raised = "none"
    /\ call = NoCall
    /\ queries = 0
    /\ gen_pc = "idle"
    /\ rng = 0
    /\ i = 0
    /\ todo = {}
    /\ tmp = NoTmp
    /\ left_samples = <<>>
    /\ right_samples = <<>>
    /\ left_feat_df = <<>>
    /\ right_feat_df = <<>>
    /\ requested = 0
    /\ yielded = 0
    /\ nSplits = 0
    /\ nProcess = 0

\* The other programs at rest, for the specifications of one program.
ResamplerIdle == InitResampler /\ db = <<>>

(***************************************************************************)
(* plot_data.py: the row-normalized tables of the three heatmaps           *)
(***************************************************************************)
\* Largest count of one (initial, mutated) pair in a count file.
MaxCount == 2

\* The row and column labels; every label occurs as an initial and as a
\* mutated value of the file, so the reordering by `order` selects labels
\* that exist.
Labels == {"A", "C"}
order == <<"A", "C">>

CountFiles ==
    {f \in [Labels \X Labels -> [present : BOOLEAN, count : 0 .. MaxCount]] :
        /\ \A r \in Labels : \E c \in Labels : f[<<r, c>>].present
        /\ \A c \in Labels : \E r \in Labels : f[<<r, c>>].present
        /\ \A cell \in Labels \X Labels : ~f[cell].present => f[cell].count = 0}

NaN == [nan |-> TRUE, num |-> 0, den |-> 1]
Number(n, d) == [nan |-> FALSE, num |-> n, den |-> d]

RECURSIVE SumOver(_, _)
SumOver(S, f) ==
    IF S = {} THEN 0
    ELSE LET x == CHOOSE y \in S : TRUE IN f[x] + SumOver(S \ {x}, f)

\* pd.pivot_table(df, values='count', rows='initial', cols='mutated',
\* aggfunc=sum): a pair the file does not hold is a missing cell.
pivot_table(f) ==
    [cell \in Labels \X Labels |->
        IF f[cell].present THEN Number(f[cell].count, 1) ELSE NaN]

\* ptable.T.sum(): the sum of every row, missing cells skipped.
RowSum(ptable, r) ==
    SumOver({c \in Labels : ~ptable[<<r, c>>].nan},
            [c \in Labels |-> ptable[<<r, c>>].num])

\* (ptable.T / ptable.T.sum()).T: a missing cell stays missing, and 0/0 is
\* missing.
Normalize(ptable) ==
    [cell \in Labels \X Labels |->
        IF ptable[cell].nan \/ RowSum(ptable, cell[1]) = 0
        THEN NaN
        ELSE Number(ptable[cell].num, RowSum(ptable, cell[1]))]

\* DataFrame.fillna(value): a new table; the table it is called on is left
\* as it is.
fillna(table, value) ==
    [cell \in DOMAIN table |->
        IF table[cell].nan THEN Number(value, 1) ELSE table[cell]]

\* The statement `ptable_norm.fillna(0)`: the table fillna returns is bound
\* to no name, and ptable_norm is the table it was.
FillnaStatement(ptable_norm) ==
    LET unused == fillna(ptable_norm, 0) IN ptable_norm

\* ptable_norm.ix[order], then ptable_norm[order].
Reorder(table, ord) ==
    [cell \in Range(ord) \X Range(ord) |-> table[cell]]

aa_missense_heatmap ==
    /\ plot_pc = "start"
    /\ LET ptable == pivot_table(count_df)
           ptable_norm == FillnaStatement(Normalize(ptable))
       IN  heatmap_arg' = Reorder(ptable_norm, order)
    /\ plot_fn' = "aa_missense_heatmap"
    /\ plot_pc' = "done"
    /\ UNCHANGED <<count_df, rsVars, genVars, geneVars, hyperVars>>

nuc_substitution_heatmap ==
    /\ plot_pc = "start"
    /\ LET ptable == pivot_table(count_df)
           ptable_norm == FillnaStatement(Normalize(ptable))
       IN  heatmap_arg' = ptable_norm
    /\ plot_fn' = "nuc_substitution_heatmap"
    /\ plot_pc' = "done"
    /\ UNCHANGED <<count_df, rsVars, genVars, geneVars, hyperVars>>

\* _utils.read_aa_properties gives the count table itself.
aa_property_heatmap ==
    /\ plot_pc = "start"
    /\ LET df_counts == pivot_table(count_df)
           df_norm == FillnaStatement(Normalize(df_counts))
       IN  heatmap_arg' = Reorder(df_norm, order)
    /\ plot_fn' = "aa_property_heatmap"
    /\ plot_pc' = "done"
    /\ UNCHANGED <<count_df, rsVars, genVars, geneVars, hyperVars>>

PlotIdle ==
    /\ count_df = [cell \in Labels \X Labels |-> [present |-> TRUE, count |-> 1]]
    /\ plot_pc = "off"
    /\ plot_fn = "none"
    /\ heatmap_arg = <<>>

(***************************************************************************)
(* gene_tsv.py: concatenate_genes                                          *)
(***************************************************************************)
\* skip_rows of skip_header
SkipRows == 8
\* Data lines of one gene file, after its preamble.
MaxDataLines == 1
\* Files in the letter directories, and files in the directory 0-9.
MaxFiles == 1

\* A string whose letters matter is a sequence of characters.
Confirmed == <<"C", "o", "n", "f", "i", "r", "m", "e", "d", " ", "s", "o", "m", "a", "t", "i", "c", " ", "v", "a", "r", "i", "a", "n", "t">>
UnknownOrigin == <<"V", "a", "r", "i", "a", "n", "t", " ", "o", "f", " ", "u", "n", "k", "n", "o", "w", "n", " ", "o", "r", "i", "g", "i", "n">>
UnknownCapital == <<"U", "n", "k", "n", "o", "w", "n">>
unknown == <<"u", "n", "k", "n", "o", "w", "n">>

\* str.lower, on the letters the values hold.
LowerChar(c) ==
    CASE c = "C" -> "c"
      [] c = "U" -> "u"
      [] c = "V" -> "v"
      [] OTHER -> c
lower(s) == [k \in DOMAIN s |-> LowerChar(s[k])]

\* sub in s
Contains(sub, s) ==
    \E k \in 0 .. (Len(s) - Len(sub)) : SubSeq(s, k + 1, k + Len(sub)) = sub

\* A line of a gene file split at the tabs; of its 22 fields the three that
\* are tested are kept.
Lines ==
    [AminoAcid : {"", "p.?", "p.V600E"},
     Nucleotide : {"", "c.?", "c.1799T>A"},
     SomaticStatus : {Confirmed, UnknownOrigin, UnknownCapital}]

\* A preamble line; it would pass every test were it not skipped.
PreambleLine ==
    [AminoAcid |-> "preamble", Nucleotide |-> "preamble",
     SomaticStatus |-> Confirmed]
Preamble == [k \in 1 .. SkipRows |-> PreambleLine]

\* A file name is its stem, cut where '_ENST' occurs, and its last four
\* characters.
FileNames ==
    [stem : {<<"BRAF">>, <<"BRAF", "_ENST", "00000288602">>},
     ext : {".tsv", ".csv"}]

GeneFiles ==
    [file_name : FileNames,
     lines : {Preamble \o d : d \in SeqsUpTo(Lines, MaxDataLines)}]

\* file_name.endswith('.tsv') and '_ENST' not in file_name
EndsWithTsv(file_name) == file_name.ext = ".tsv"
HasENST(file_name) == "_ENST" \in Range(file_name.stem)
UsedFile(file_name) == EndsWithTsv(file_name) /\ ~HasENST(file_name)

\* file_name[:-4]
gene_name(file_name) == file_name.stem

\* skip_header: the handle after skip_rows calls of next().
skip_header(lines, skip_rows) == SubSeq(lines, skip_rows + 1, Len(lines))

\* The three nested tests of a data line.
KeepLine(split_tuple) ==
    /\ split_tuple.AminoAcid # "" /\ split_tuple.Nucleotide # ""
    /\ (split_tuple.AminoAcid # "p.?" \/ split_tuple.Nucleotide # "c.?")
    /\ ~Contains(unknown, lower(split_tuple.SomaticStatus))

\* mywriter.write(gene_name + "\t" + line), for the lines of a file kept.
WrittenLines(f) ==
    LET data == skip_header(f.lines, SkipRows)
        kept == SelectSeq(data, KeepLine)
    IN  [k \in 1 .. Len(kept) |-> [Gene |-> gene_name(f.file_name), line |-> kept[k]]]

HeaderLine ==
    [Gene |-> <<"Gene">>,
     line |-> [AminoAcid |-> "AminoAcid", Nucleotide |-> "Nucleotide",
               SomaticStatus |-> <<>>]]

\* One file of the loop over the directories A .. Z.
LetterFile ==
    /\ gene_pc = "letters" /\ file_ix <= Len(letter_files)
    /\ LET f == letter_files[file_ix]
       IN  IF UsedFile(f.file_name)
           THEN /\ out' = (IF FIRST_FLAG THEN Append(out, HeaderLine) ELSE out)
                          \o WrittenLines(f)
                /\ LineTuple' = (LineTuple \/ FIRST_FLAG)
                /\ FIRST_FLAG' = FALSE
           ELSE UNCHANGED <<out, LineTuple, FIRST_FLAG>>
    /\ file_ix' = file_ix + 1
    /\ UNCHANGED <<letter_files, numeric_files, gene_pc, rsVars, genVars,
                   plotVars, hyperVars>>

\* The loop over the letters ends; os.listdir(numeric_dir).
LettersDone ==
    /\ gene_pc = "letters" /\ file_ix > Len(letter_files)
    /\ gene_pc' = "numeric"
    /\ file_ix' = 1
    /\ UNCHANGED <<letter_files, numeric_files, out, FIRST_FLAG, LineTuple,
                   rsVars, genVars, plotVars, hyperVars>>

\* One file of the loop over the directory 0-9. LineTuple is bound only by
\* the header branch of the letter loop: unbound, its first use on a data
\* line raises NameError, which ends concatenate_genes.
NumericFile ==
    /\ gene_pc = "numeric" /\ file_ix <= Len(numeric_files)
    /\ LET f == numeric_files[file_ix]
       IN  IF UsedFile(f.file_name)
           THEN IF LineTuple \/ skip_header(f.lines, SkipRows) = <<>>
                THEN /\ out' = out \o WrittenLines(f)
                     /\ gene_pc' = gene_pc
                ELSE /\ out' = out
                     /\ gene_pc' = "error"
           ELSE UNCHANGED <<out, gene_pc>>
    /\ file_ix' = file_ix + 1
    /\ UNCHANGED <<letter_files, numeric_files, FIRST_FLAG, LineTuple, rsVars,
                   genVars, plotVars, hyperVars>>

NumericDone ==
    /\ gene_pc = "numeric" /\ file_ix > Len(numeric_files)
    /\ gene_pc' = "done"
    /\ UNCHANGED <<letter_files, numeric_files, file_ix, out, FIRST_FLAG,
                   LineTuple, rsVars, genVars, plotVars, hyperVars>>

GeneIdle ==
    /\ letter_files = <<>>
    /\ numeric_files = <<>>
    /\ gene_pc = "off"
    /\ file_ix = 1
    /\ out = <<>>
    /\ FIRST_FLAG = TRUE
    /\ LineTuple = FALSE

(***************************************************************************)
(* gene_tsv.py: save_db and filter_hypermutators                           *)
(***************************************************************************)
\* Largest number of rows of the combined file.
MaxNucRows == 4
\* Largest hypermutator_count passed (the program's callers pass 500).
MaxHyperCount == 3
\* filter_hypermutators calls made directly, after save_db.
MaxFilterCalls == 2

CosmicSamples == {"x", "y"}
NucRows == [COSMICSampleID : CosmicSamples, MutationID : 1 .. 2]

\* SUM(x.mut_indicator) ... GROUP BY COSMICSampleID: the rows of a sample.
MutationCounts(table, sample) ==
    Cardinality({k \in DOMAIN table : table[k].COSMICSampleID = sample})

\* SELECT * FROM nucleotide WHERE COSMICSampleID in (... WHERE
\* y.MutationCounts<%d)
NonHypermutators(table, count) ==
    SelectSeq(table, LAMBDA r : MutationCounts(table, r.COSMICSampleID) < count)

\* The query, drop_table, and write_frame(df, 'nucleotide', if_exists='replace').
filter_hypermutators(count, table) ==
    /\ nuc_before' = table
    /\ hypermutator_count' = count
    /\ nucleotide' = NonHypermutators(table, count)
    /\ filter_calls' = filter_calls + 1

\* read_csv, write_frame of the whole file, then filter_hypermutators.
save_db(hypermutator_ct) ==
    /\ filter_calls = 0
    /\ filter_hypermutators(hypermutator_ct, tsv)
    /\ UNCHANGED <<tsv, rsVars, genVars, plotVars, geneVars>>

\* filter_hypermutators called on the table of an existing database.
CallFilterHypermutators(count) ==
    /\ filter_calls > 0 /\ filter_calls < MaxFilterCalls
    /\ filter_hypermutators(count, nucleotide)
    /\ UNCHANGED <<tsv, rsVars, genVars, plotVars, geneVars>>

HyperIdle ==
    /\ tsv = <<>>
    /\ nucleotide = <<>>
    /\ nuc_before = <<>>
    /\ hypermutator_count = 0
    /\ filter_calls = 0

InitHyper ==
    /\ ResamplerIdle /\ PlotIdle /\ GeneIdle
    /\ tsv \in SeqsUpTo(NucRows, MaxNucRows)
    /\ nucleotide = <<>>
    /\ nuc_before = <<>>
    /\ hypermutator_count = 0
    /\ filter_calls = 0

NextHyper ==
    \/ \E c \in 1 .. MaxHyperCount : save_db(c)
    \/ \E c \in 1 .. MaxHyperCount : CallFilterHypermutators(c)

SpecHyper == InitHyper /\ [][NextHyper]_vars


InitGene ==
    /\ ResamplerIdle /\ PlotIdle /\ HyperIdle
    /\ letter_files \in SeqsUpTo(GeneFiles, MaxFiles)
    /\ numeric_files \in SeqsUpTo(GeneFiles, MaxFiles)
    /\ gene_pc = "letters"
    /\ file_ix = 1
    /\ out = <<>>
    /\ FIRST_FLAG = TRUE
    /\ LineTuple = FALSE

NextGene ==
    \/ LetterFile
    \/ LettersDone
    \/ NumericFile
    \/ NumericDone

SpecGene == InitGene /\ [][NextGene]_vars


InitPlot ==
    /\ ResamplerIdle /\ GeneIdle /\ HyperIdle
    /\ count_df \in CountFiles
    /\ plot_pc = "start"
    /\ plot_fn = "none"
    /\ heatmap_arg = <<>>

NextPlot ==
    \/ aa_missense_heatmap
    \/ nuc_substitution_heatmap
    \/ aa_property_heatmap

SpecPlot == InitPlot /\ [][NextPlot]_vars

Init == InitResampler /\ PlotIdle /\ GeneIdle /\ HyperIdle

\* Construction, then the consumer iterating dataframe_generator.
Next ==
    \/ \E s \in SubSampleInputs, n \in NumIterInputs, w \in BOOLEAN :
          Construct(s, n, w)
    \/ ConstructNumIter
    \/ ConstructLoad
    \/ Request
    \/ \E t \in TumorTypes : SplitType(t)
    \/ ProcessLeft
    \/ ProcessRight

Spec == Init /\ [][Next]_vars

\* Construction, then setter calls on the constructed object.
NextSetters ==
    \/ \E s \in SubSampleInputs, n \in NumIterInputs, w \in BOOLEAN :
          Construct(s, n, w)
    \/ ConstructNumIter
    \/ ConstructLoad
    \/ \E s \in SubSampleInputs : CallSetSubSample(s)
    \/ \E n \in NumIterInputs : CallSetNumIter(n)

SpecSetters == Init /\ [][NextSetters]_vars

(***************************************************************************)
(* Properties of the resampler                                             *)
(***************************************************************************)
\* The index set_df builds from the loaded table.
LoadedIndex == Groups(DropDuplicates(df))

\* floor(n * s / SubDen), stated by its defining inequalities.
FloorOfProduct(n, s) ==
    CHOOSE k \in 0 .. n : k * SubDen <= n * s /\ n * s < (k + 1) * SubDen

\* C1: without replacement, the left part taken for a tumor type with n
\* sample ids has floor(n*sub_sample) ids, the right part the other
\* n - floor(n*sub_sample), the parts share no id, and together they are
\* exactly the type's ids.
C1_SplitWithoutReplacement ==
    (pc = "ready" /\ ~with_replacement /\ tmp.ttype # "none") =>
        LET ids == LoadedIndex[tmp.ttype]
            n == Len(ids)
            k == FloorOfProduct(n, sub_sample)
        IN  /\ Len(tmp.tmp_left) = k
            /\ Len(tmp.tmp_right) = n - k
            /\ Cardinality(Range(tmp.tmp_left)) = k
            /\ Cardinality(Range(tmp.tmp_right)) = n - k
            /\ Range(tmp.tmp_left) \cap Range(tmp.tmp_right) = {}
            /\ Range(tmp.tmp_left) \cup Range(tmp.tmp_right) = Range(ids)

\* A type with two ids split one and one at a rate whose product with the
\* count is not whole (2 * 3/4 = 1.5).
C1_Witness ==
    /\ pc = "ready" /\ ~with_replacement /\ tmp.ttype # "none"
    /\ Len(sample_names[tmp.ttype]) = 2
    /\ (2 * sub_sample) % SubDen # 0
    /\ Len(tmp.tmp_left) = 1 /\ Len(tmp.tmp_right) = 1

\* C2: with replacement, the left and the right draw for a tumor type with
\* n sample ids each hold floor(n*sub_sample) ids, duplicates counted, and
\* every drawn id is one of the type's ids.
C2_DrawWithReplacement ==
    (pc = "ready" /\ with_replacement /\ tmp.ttype # "none") =>
        LET ids == LoadedIndex[tmp.ttype]
            k == FloorOfProduct(Len(ids), sub_sample)
        IN  /\ Len(tmp.tmp_left) = k
            /\ Len(tmp.tmp_right) = k
            /\ Range(tmp.tmp_left) \subseteq Range(ids)
            /\ Range(tmp.tmp_right) \subseteq Range(ids)

\* A draw that repeats an id on the left and shares it with the right.
C2_Witness ==
    /\ pc = "ready" /\ with_replacement /\ tmp.ttype # "none"
    /\ Len(tmp.tmp_left) = 2 /\ tmp.tmp_left[1] = tmp.tmp_left[2]
    /\ Range(tmp.tmp_left) \cap Range(tmp.tmp_right) # {}

C4_NumIterPositive ==
    (call.op = "set_num_iter" /\ call.arg <= 0) =>
        (raised = "ValueError" /\ num_iter # call.arg)

\* C5: a fully consumed dataframe_generator has yielded exactly num_iter
\* pairs.
C5_YieldsNumIter ==
    (pc = "ready" /\ gen_pc = "done") => yielded = num_iter

\* C6: the generator works only on request: while it is suspended it has
\* made two _process_features calls, and one partition per tumor type, for
\* every pair handed out and none for a pair not yet asked for; while pair
\* number `requested` is being built only the work of that pair is added,
\* the left table before the right.
C6_Lazy ==
    pc = "ready" =>
        /\ nProcess <= 2 * requested
        /\ nSplits <= requested * Cardinality(DOMAIN sample_names)
        /\ gen_pc \in {"idle", "yielded", "done"} =>
              /\ nProcess = 2 * yielded
              /\ nSplits = yielded * Cardinality(DOMAIN sample_names)
        /\ gen_pc = "idle" => requested = 0
        /\ gen_pc = "yielded" => yielded = requested
        /\ gen_pc = "done" => yielded = requested - 1
        /\ gen_pc = "split" =>
              /\ yielded = requested - 1
              /\ nProcess = 2 * (requested - 1)
        /\ gen_pc = "left_done" =>
              /\ yielded = requested - 1
              /\ nProcess = 2 * (requested - 1) + 1

\* A consumer that has taken one pair of two: two feature computations.
C6_Witness ==
    /\ pc = "ready" /\ gen_pc = "yielded"
    /\ rng = 2 /\ requested = 1 /\ nProcess = 2
    /\ sample_names # <<>>

OneTypePerSample ==
    \A j, k \in DOMAIN df :
        df[j].Tumor_Sample = df[k].Tumor_Sample =>
            df[j].Tumor_Type = df[k].Tumor_Type

\* C11, as claimed: without replacement the global left and right sample
\* lists share no id, whatever pairs the table holds.
C11_GlobalDisjoint ==
    (pc = "ready" /\ ~with_replacement) =>
        Range(left_samples) \cap Range(right_samples) = {}

\* C11, amended: without replacement the global left and right sample lists
\* share no id when every sample id of the table has one tumor type.
C11_GlobalDisjointOneType ==
    (pc = "ready" /\ ~with_replacement /\ OneTypePerSample) =>
        Range(left_samples) \cap Range(right_samples) = {}

\* Both lists complete and non-empty, over a table with one type per sample.
C11_Witness ==
    /\ pc = "ready" /\ ~with_replacement /\ OneTypePerSample
    /\ gen_pc = "yielded"
    /\ left_samples # <<>> /\ right_samples # <<>>
    /\ Range(left_samples) \cap Range(right_samples) = {}

\* Number of places of the sequence s that hold x.
Occurrences(s, x) == Cardinality({k \in DOMAIN s : s[k] = x})

\* C12, as claimed: after any number of iterations every tumor type maps to
\* the same ordered sequence of sample ids that set_df built.
C12_IndexReadOnly ==
    pc = "ready" => sample_names = LoadedIndex

\* C12, amended: after any number of iterations every tumor type of the
\* loaded index maps to a reordering of the sequence set_df built (the same
\* ids, each as often), and with replacement to that very sequence.
C12_IndexSameIds ==
    pc = "ready" =>
        LET loaded == LoadedIndex
        IN  \/ sample_names = loaded
            \/ /\ ~with_replacement
               /\ DOMAIN sample_names = DOMAIN loaded
               /\ \A t \in DOMAIN loaded :
                     /\ Len(sample_names[t]) = Len(loaded[t])
                     /\ \A x \in Samples :
                           Occurrences(sample_names[t], x) = Occurrences(loaded[t], x)

\* A pair has been yielded without replacement and a tumor type's list is in
\* another order than the one loaded.
C12_Witness ==
    /\ pc = "ready" /\ ~with_replacement /\ yielded >= 1
    /\ \E t \in DOMAIN sample_names :
          /\ sample_names[t] # LoadedIndex[t]
          /\ Range(sample_names[t]) = Range(LoadedIndex[t])

\* The attributes set_df stores.
LoadedAttributes == {"df", "sample_names", "num_sample_names", "total_count"}

\* C13: __init__ validates before it loads: a rejected argument ends it
\* with no query issued and no table or index stored, and the query is
\* issued only after set_sub_sample and then set_num_iter have accepted
\* their values.
C13_ValidateBeforeLoad ==
    /\ pc = "failed" => raised = "ValueError"
    /\ pc \in {"new", "init_num_iter", "init_load", "failed"} =>
          /\ queries = 0
          /\ has \cap LoadedAttributes = {}
          /\ df = <<>> /\ sample_names = <<>> /\ total_count = 0
    /\ pc = "init_num_iter" =>
          /\ call.k = 1 /\ call.op = "set_sub_sample"
          /\ "sub_sample" \in has /\ "num_iter" \notin has
    /\ pc = "init_load" =>
          /\ call.k = 2 /\ call.op = "set_num_iter"
          /\ {"sub_sample", "num_iter"} \subseteq has
    /\ queries > 0 =>
          /\ queries = 1
          /\ pc = "ready"
          /\ {"sub_sample", "num_iter"} \subseteq has

\* __init__ ended by the ValueError of a negative sub_sample, the database
\* holding rows that were never queried.
C13_Witness ==
    /\ pc = "failed" /\ raised = "ValueError"
    /\ args.sub_sample < 0
    /\ db # <<>> /\ queries = 0 /\ df = <<>>

\* The positions of self.df whose Tumor_Sample occurs in the list side.
RowsOfSide(side) == {k \in DOMAIN df : df[k].Tumor_Sample \in Range(side)}

\* feat holds each row of self.df at a position of RowsOfSide(side) once,
\* and nothing else.
SelectsRowsOf(feat, side) ==
    /\ Len(feat) = Cardinality(RowsOfSide(side))
    /\ \A r \in Rows :
          Occurrences(feat, r) = Cardinality({k \in RowsOfSide(side) : df[k] = r})
    /\ side = <<>> => feat = <<>>

\* C14: _process_features selects for a side exactly the rows of self.df
\* whose Tumor_Sample occurs in the side's sample list, each once however
\* often the id was drawn, and no row when the list is empty.
C14_SelectsRowsOfIds ==
    /\ gen_pc \in {"left_done", "yielded"} => SelectsRowsOf(left_feat_df, left_samples)
    /\ gen_pc = "yielded" => SelectsRowsOf(right_feat_df, right_samples)

\* A pair yielded with replacement whose left list holds one id twice,
\* its rows being in the left table once.
C14_Witness ==
    /\ gen_pc = "yielded" /\ with_replacement
    /\ \E x \in Samples :
          /\ Occurrences(left_samples, x) >= 2
          /\ \E k \in DOMAIN df : df[k].Tumor_Sample = x
          /\ \A r \in Rows :
                r.Tumor_Sample = x => Occurrences(left_feat_df, r) = Occurrences(df, r)

(***************************************************************************)
(* Properties of plot_data.py and gene_tsv.py                              *)
(***************************************************************************)
\* C7: the table handed to heatmap has no undefined entry: a row with a
\* non-zero sum sums to 1, and every entry normalization leaves undefined
\* (a cell of an all-zero row, a cell the count data lacks) is 0.
C7_NoUndefinedEntry ==
    plot_pc = "done" =>
        \A r \in Labels :
            /\ \A c \in Labels : ~heatmap_arg[<<r, c>>].nan
            /\ \A c \in Labels :
                  (~count_df[<<r, c>>].present
                   \/ RowSum(pivot_table(count_df), r) = 0)
                      => heatmap_arg[<<r, c>>].num = 0
            /\ RowSum(pivot_table(count_df), r) # 0 =>
                  SumOver(Labels, [c \in Labels |-> heatmap_arg[<<r, c>>].num])
                      = RowSum(pivot_table(count_df), r)

\* The data lines a file must contribute to the combined file.
ExpectedOfFile(f) ==
    IF f.file_name.ext = ".tsv" /\ "_ENST" \notin Range(f.file_name.stem)
    THEN LET data == SubSeq(f.lines, 9, Len(f.lines))
             kept == SelectSeq(data, LAMBDA l :
                        /\ l.AminoAcid # "" /\ l.Nucleotide # ""
                        /\ ~(l.AminoAcid = "p.?" /\ l.Nucleotide = "c.?")
                        /\ l.SomaticStatus \notin {UnknownOrigin, UnknownCapital})
         IN  [k \in 1 .. Len(kept) |->
                [Gene |-> f.file_name.stem, line |-> kept[k]]]
    ELSE <<>>

RECURSIVE ExpectedOfFiles(_)
ExpectedOfFiles(files) ==
    IF files = <<>> THEN <<>>
    ELSE ExpectedOfFile(Head(files)) \o ExpectedOfFiles(Tail(files))

\* C9: when concatenate_genes has ended, the data lines of the combined file
\* are exactly the lines, prefixed with the gene name, that pass the rule,
\* for the files of the letter directories and of the directory 0-9 alike.
C9_WrittenIffKept ==
    gene_pc \in {"done", "error"} =>
        SelectSeq(out, LAMBDA w : w # HeaderLine)
            = ExpectedOfFiles(letter_files) \o ExpectedOfFiles(numeric_files)

\* C10: after filter_hypermutators the table holds exactly the rows of the
\* samples that had at most hypermutator_count rows before the call.
C10_HypermutatorsRemoved ==
    filter_calls > 0 =>
        nucleotide =
            SelectSeq(nuc_before, LAMBDA r :
                Cardinality({k \in DOMAIN nuc_before :
                    nuc_before[k].COSMICSampleID = r.COSMICSampleID})
                        <= hypermutator_count)

====
